---- MODULE Spec2Model ----
(***************************************************************************)
(* Model of src/app.py: the maternal-mortality dashboard.                  *)
(*   - the load stage (module level, lines 25-89) is the action Load;      *)
(*   - the Dash callback update_dashboard (lines 120-214) is the action    *)
(*     update_dashboard.                                                   *)
(* Text values whose characters matter (municipality codes, shape ids) are *)
(* sequences of one-character strings; a missing value (NaN / None) in     *)
(* such a slot is the sentinel Missing.  Numbers that may be NaN are       *)
(* records: NaN, or an exact fraction Fr(n, d) in lowest terms.            *)
(***************************************************************************)
EXTENDS Integers, Sequences, FiniteSets, TLC

VARIABLES
    pc,             \* "boot" before the load stage ran, "serving", or "failed"
    csv,            \* the rows of the CSV file (input, read once)
    geo,            \* the GeoJSON file (input): absent, or a feature list
    df,             \* global df: the loaded records
    years,          \* global years
    muni_agg,       \* global muni_agg
    global_vmax,    \* global global_vmax
    geojson_data,   \* global geojson_data: the features after the id fallback
    available_ids,  \* global available_ids
    out,            \* what the last callback invocation returned, with its inputs
    prev            \* history: what the invocation before the last returned

vars == <<pc, csv, geo, df, years, muni_agg, global_vmax, geojson_data,
          available_ids, out, prev>>

data == <<df, years, muni_agg, global_vmax, geojson_data, available_ids>>

----------------------------------------------------------------------------
(* Generic helpers                                                         *)

RECURSIVE SeqSum(_)
SeqSum(s) == IF s = <<>> THEN 0 ELSE Head(s) + SeqSum(Tail(s))

Abs(x) == IF x < 0 THEN -x ELSE x

RECURSIVE Gcd(_, _)
Gcd(a, b) == IF b = 0 THEN a ELSE Gcd(b, a % b)

\* truncation toward zero of n/d (d > 0): what astype(int) does to a float
Trunc(n, d) == IF n >= 0 THEN n \div d ELSE -((-n) \div d)

----------------------------------------------------------------------------
(* Numbers that may be NaN                                                 *)

NaN == [k |-> "nan"]

IsNaN(x) == x.k = "nan"

\* the exact value n/d (d # 0), in lowest terms with a positive denominator
Fr(n, d) ==
    LET g == Gcd(Abs(n), Abs(d))
        s == IF d < 0 THEN -1 ELSE 1
    IN  [k |-> "num", n |-> (s * n) \div g, d |-> (s * d) \div g]

FrLess(a, b) == a.n * b.d < b.n * a.d

FrAdd(a, b) == Fr(a.n * b.d + b.n * a.d, a.d * b.d)

FrSub(a, b) == Fr(a.n * b.d - b.n * a.d, a.d * b.d)

FrMul(a, b) == Fr(a.n * b.n, a.d * b.d)

----------------------------------------------------------------------------
(* Text: str.extract(r"(\d+)"), str.zfill                                  *)

Digits == {"0", "1", "2", "3", "4", "5", "6", "7", "8", "9"}

\* the characters in the order Python compares them (code points)
CharOrder == <<"+", "-", ".", "0", "1", "2", "3", "4", "5", "6", "7", "8", "9",
               "a", "n", "x">>

Rank(c) == CHOOSE i \in 1..Len(CharOrder) : CharOrder[i] = c

Missing == <<"<NA>">>

IsMissing(s) == s = Missing

\* str(x) of a cell: NaN prints as "nan", text is itself
astype_str(s) == IF IsMissing(s) THEN <<"n", "a", "n">> ELSE s

\* a fault of str_extract: every digit of the text, not the first run
str_extract_all_digits(s) ==
    LET d == SelectSeq(s, LAMBDA c : c \in Digits)
    IN  IF d = <<>> THEN Missing ELSE d

\* Series.str.extract(r"(\d+)", expand=False): the first maximal run of digits
str_extract(s) ==
    LET starts == {i \in 1..Len(s) : s[i] \in Digits}
    IN  IF starts = {} THEN Missing
        ELSE LET b == CHOOSE i \in starts : \A j \in starts : i <= j
                 e == CHOOSE i \in b..Len(s) :
                          /\ \A j \in b..i : s[j] \in Digits
                          /\ (i = Len(s) \/ s[i + 1] \notin Digits)
             IN  SubSeq(s, b, e)

RECURSIVE Zeros(_)
Zeros(n) == IF n <= 0 THEN <<>> ELSE <<"0">> \o Zeros(n - 1)

\* str.zfill(width): pads on the left, after a leading sign; never truncates
py_zfill(s, width) ==
    IF Len(s) >= width THEN s
    ELSE IF Len(s) > 0 /\ s[1] \in {"+", "-"}
         THEN <<s[1]>> \o Zeros(width - Len(s)) \o Tail(s)
         ELSE Zeros(width - Len(s)) \o s

\* Series.str.zfill: a missing value stays missing
str_zfill(s, width) == IF IsMissing(s) THEN Missing ELSE py_zfill(s, width)

ZfillWidth == 5

\* line 30: astype(str).str.extract(r"(\d+)").str.zfill(5)
NormalizeCodigo(raw) == str_zfill(str_extract(astype_str(raw)), ZfillWidth)

\* lexicographic order of two texts
RECURSIVE LexLess(_, _)
LexLess(a, b) ==
    IF b = <<>> THEN FALSE
    ELSE IF a = <<>> THEN TRUE
    ELSE IF a[1] = b[1] THEN LexLess(Tail(a), Tail(b))
    ELSE Rank(a[1]) < Rank(b[1])

RECURSIVE SortTexts(_)
SortTexts(S) ==
    IF S = {} THEN <<>>
    ELSE LET m == CHOOSE x \in S : \A y \in S \ {x} : LexLess(x, y)
         IN  <<m>> \o SortTexts(S \ {m})

RECURSIVE SortInts(_)
SortInts(S) ==
    IF S = {} THEN <<>>
    ELSE LET m == CHOOSE x \in S : \A y \in S : x <= y
         IN  <<m>> \o SortInts(S \ {m})

----------------------------------------------------------------------------
(* Input files                                                             *)

\* a numeric CSV cell that holds text pd.to_numeric cannot parse
TextCell == [k |-> "text"]

IntCell(n) == Fr(n, 1)

NaNRegion == "<NaN>"

SinRegion == "Sin region"

T5001 == <<"5", "0", "0", "1">>
T5002 == <<"5", "0", "0", "2">>
T05001 == <<"0", "5", "0", "0", "1">>

Row(y, c, m, r, n, p) ==
    [Anio |-> y, CodigoMunicipio |-> c, NombreMunicipio |-> m, NombreRegion |-> r,
     NumeroCasos |-> n, NumeroPoblacionObjetivo |-> p]

Feature(i, c1, c2) == [id |-> i, CodigoMunicipio |-> c1, codigo |-> c2]

NoFile == [exists |-> FALSE, features |-> <<>>]

File(fs) == [exists |-> TRUE, features |-> fs]

----------------------------------------------------------------------------
(* Load stage, lines 25-89                                                 *)

\* lines 28-29: pd.to_numeric(errors="coerce").fillna(0).astype(int)
to_int(cell) == IF cell.k = "num" THEN Trunc(cell.n, cell.d) ELSE 0

\* line 31: fillna("Sin región")
fill_region(r) == IF r = NaNRegion THEN SinRegion ELSE r

\* a fault of tasa_100k: the column starts at 0 and not at NaN
tasa_100k_zero(casos, pob) == IF pob > 0 THEN Fr(casos * 100000, pob) ELSE Fr(0, 1)

\* lines 34-36: NaN unless the population is > 0
tasa_100k(casos, pob) == IF pob > 0 THEN Fr(casos * 100000, pob) ELSE NaN

\* lines 49, 156: (casos / pob.replace({0: np.nan})) * 100000
tasa_agg(casos, pob) == IF pob = 0 THEN NaN ELSE Fr(casos * 100000, pob)

\* lines 28-36 for one row
LoadRow(r) ==
    LET casos == to_int(r.NumeroCasos)
        pob   == to_int(r.NumeroPoblacionObjetivo)
    IN  [Anio |-> r.Anio.n \div r.Anio.d,
         CodigoMunicipio |-> NormalizeCodigo(r.CodigoMunicipio),
         NombreMunicipio |-> r.NombreMunicipio,
         NombreRegion |-> fill_region(r.NombreRegion),
         NumeroCasos |-> casos,
         NumeroPoblacionObjetivo |-> pob,
         tasa_100k |-> tasa_100k(casos, pob)]

LoadDf(rows) == [i \in 1..Len(rows) |-> LoadRow(rows[i])]

\* line 39: sorted(pd.unique(df["Año"]))
LoadYears(frame) == SortInts({frame[i].Anio : i \in 1..Len(frame)})

\* lines 42-50: groupby("CodigoMunicipio") drops the missing keys and sorts the rest
LoadMuniAgg(frame) ==
    LET keys == SortTexts({frame[i].CodigoMunicipio : i \in 1..Len(frame)} \ {Missing})
        group(c) == SelectSeq(frame, LAMBDA r : r.CodigoMunicipio = c)
        agg(c) ==
            LET g     == group(c)
                casos == SeqSum([i \in 1..Len(g) |-> g[i].NumeroCasos])
                pob   == SeqSum([i \in 1..Len(g) |-> g[i].NumeroPoblacionObjetivo])
            IN  [CodigoMunicipio |-> str_zfill(astype_str(c), ZfillWidth),
                 NumeroCasos |-> casos,
                 NumeroPoblacionObjetivo |-> pob,
                 NombreMunicipio |-> g[1].NombreMunicipio,
                 NombreRegion |-> g[1].NombreRegion,
                 tasa_100k |-> tasa_agg(casos, pob)]
    IN  [i \in 1..Len(keys) |-> agg(keys[i])]

RECURSIVE SortFr(_)
SortFr(s) ==
    IF s = <<>> THEN <<>>
    ELSE LET i == CHOOSE j \in 1..Len(s) : \A l \in 1..Len(s) : ~FrLess(s[l], s[j])
         IN  <<s[i]>> \o SortFr(SubSeq(s, 1, i - 1) \o SubSeq(s, i + 1, Len(s)))

NoneVal == [k |-> "none"]

\* Series.quantile(0.95), linear interpolation between the two nearest ranks
Quantile95(vals) ==
    LET v  == SortFr(vals)
        h  == 19 * (Len(v) - 1)
        lo == (h \div 20) + 1
        fr == h % 20
    IN  IF fr = 0 THEN v[lo]
        ELSE FrAdd(v[lo], FrMul(FrSub(v[lo + 1], v[lo]), Fr(fr, 20)))

\* lines 52-53
LoadVmax(agg) ==
    LET vals == SelectSeq([i \in 1..Len(agg) |-> agg[i].tasa_100k],
                          LAMBDA t : ~IsNaN(t))
    IN  IF Len(vals) > 0 THEN Quantile95(vals) ELSE NoneVal

\* Python truth of an id or a code: None and "" are false
Truthy(t) == ~IsMissing(t) /\ t # <<>>

\* lines 62-67: a feature without an id takes it from its properties
LoadFeature(feat) ==
    IF ~Truthy(feat.id)
    THEN LET code == IF Truthy(feat.CodigoMunicipio) THEN feat.CodigoMunicipio
                     ELSE feat.codigo
         IN  IF Truthy(code) THEN [feat EXCEPT !.id = py_zfill(code, ZfillWidth)]
             ELSE feat
    ELSE feat

\* lines 56-61
LoadGeojson(file) ==
    IF file.exists THEN [i \in 1..Len(file.features) |-> LoadFeature(file.features[i])]
    ELSE <<>>

\* lines 57, 68
LoadAvailableIds(file) ==
    IF file.exists
    THEN LET feats == LoadGeojson(file)
         IN  {py_zfill(feats[i].id, ZfillWidth) :
                  i \in {j \in 1..Len(feats) : Truthy(feats[j].id)}}
    ELSE {}

\* lines 83-84: int(y) of a NaN year and max() of no year raise, and the
\* module stops before the server exists
LoadFails(rows) ==
    \/ rows = <<>>
    \/ \E i \in 1..Len(rows) : IsNaN(rows[i].Anio)

NoOut == [status |-> "none"]

\* the globals the load stage leaves behind for these two files
Loaded(rows, file) ==
    LET frame == LoadDf(rows)
        agg   == LoadMuniAgg(frame)
    IN  [df |-> frame, years |-> LoadYears(frame), muni_agg |-> agg,
         global_vmax |-> LoadVmax(agg), geojson_data |-> LoadGeojson(file),
         available_ids |-> LoadAvailableIds(file)]

Load ==
    /\ pc = "boot"
    /\ IF LoadFails(csv)
       THEN /\ pc' = "failed"
            /\ UNCHANGED data
       ELSE /\ pc' = "serving"
            /\ df' = Loaded(csv, geo).df
            /\ years' = Loaded(csv, geo).years
            /\ muni_agg' = Loaded(csv, geo).muni_agg
            /\ global_vmax' = Loaded(csv, geo).global_vmax
            /\ geojson_data' = Loaded(csv, geo).geojson_data
            /\ available_ids' = Loaded(csv, geo).available_ids
    /\ UNCHANGED <<csv, geo, out>>

----------------------------------------------------------------------------
(* The callback, lines 120-214                                             *)

\* the globals the callback reads
Globals ==
    [df |-> df, muni_agg |-> muni_agg, global_vmax |-> global_vmax,
     geojson_data |-> geojson_data, available_ids |-> available_ids]

IntArg(v) == [k |-> "int", v |-> v]

TextArg == [k |-> "text"]

\* int(selected_year): None raises TypeError, a non-numeric text ValueError
py_int(y) ==
    IF y.k = "int" THEN [raised |-> FALSE, v |-> y.v]
    ELSE IF y.k = "none" THEN [raised |-> TRUE, e |-> "TypeError"]
    ELSE [raised |-> TRUE, e |-> "ValueError"]

\* a fault of filtered_df: a region that matches no record selects them all
filtered_df_or_all(G, selected_region) ==
    LET hit == SelectSeq(G.df, LAMBDA r : r.NombreRegion = selected_region)
    IN  IF selected_region = "all" \/ hit = <<>> THEN G.df ELSE hit

\* line 123
filtered_df(G, selected_region) ==
    IF selected_region = "all" THEN G.df
    ELSE SelectSeq(G.df, LAMBDA r : r.NombreRegion = selected_region)

\* line 124, once int(selected_year) has returned
year_df(G, selected_region, y) ==
    SelectSeq(filtered_df(G, selected_region), LAMBDA r : r.Anio = y)

fillna0(t) == IF IsNaN(t) THEN Fr(0, 1) ELSE t

\* a fault of map_data: the restriction to the shape ids without its guard
map_data_unguarded(G) ==
    SelectSeq(G.muni_agg, LAMBDA m : m.CodigoMunicipio \in G.available_ids)

\* lines 127-129: the aggregate, restricted to the shape ids when there are any
map_data(G) ==
    IF G.available_ids # {}
    THEN SelectSeq(G.muni_agg, LAMBDA m : m.CodigoMunicipio \in G.available_ids)
    ELSE G.muni_agg

\* lines 130-145
map_fig(G) ==
    LET md == map_data(G)
    IN  [kind |-> "choropleth",
         geojson |-> G.geojson_data,
         locations |-> [i \in 1..Len(md) |-> astype_str(md[i].CodigoMunicipio)],
         z |-> [i \in 1..Len(md) |-> fillna0(md[i].tasa_100k)],
         zmax |-> IF G.global_vmax.k = "num" /\ G.global_vmax.n > 0
                  THEN G.global_vmax ELSE NoneVal,
         customdata |-> [i \in 1..Len(md) |->
                            <<md[i].NombreMunicipio, fillna0(md[i].tasa_100k)>>]]

\* a fault of temporal_data: the first row of each year instead of the sums
temporal_data_first(fd) ==
    LET ys == SortInts({fd[i].Anio : i \in 1..Len(fd)})
        point(y) ==
            LET g == SelectSeq(fd, LAMBDA r : r.Anio = y)
            IN  [Anio |-> y, NumeroCasos |-> g[1].NumeroCasos,
                 NumeroPoblacionObjetivo |-> g[1].NumeroPoblacionObjetivo,
                 tasa_100k |-> tasa_agg(g[1].NumeroCasos, g[1].NumeroPoblacionObjetivo)]
    IN  [i \in 1..Len(ys) |-> point(ys[i])]

\* lines 152-156: groupby("Año"), one point per year, ascending
temporal_data(fd) ==
    LET ys == SortInts({fd[i].Anio : i \in 1..Len(fd)})
        point(y) ==
            LET g     == SelectSeq(fd, LAMBDA r : r.Anio = y)
                casos == SeqSum([i \in 1..Len(g) |-> g[i].NumeroCasos])
                pob   == SeqSum([i \in 1..Len(g) |-> g[i].NumeroPoblacionObjetivo])
            IN  [Anio |-> y, NumeroCasos |-> casos, NumeroPoblacionObjetivo |-> pob,
                 tasa_100k |-> tasa_agg(casos, pob)]
    IN  [i \in 1..Len(ys) |-> point(ys[i])]

\* lines 158-175
time_fig(fd) ==
    LET td == temporal_data(fd)
    IN  [kind |-> "time",
         x |-> [i \in 1..Len(td) |-> td[i].Anio],
         y |-> [i \in 1..Len(td) |-> td[i].tasa_100k],
         bar |-> [i \in 1..Len(td) |-> td[i].NumeroCasos]]

\* lines 178-179
dist_fig(yd) == [kind |-> "histogram", x |-> [i \in 1..Len(yd) |-> yd[i].tasa_100k]]

\* lines 182-184
box_fig(fd) ==
    [kind |-> "box",
     x |-> [i \in 1..Len(fd) |-> fd[i].NombreRegion],
     y |-> [i \in 1..Len(fd) |-> fd[i].tasa_100k]]

\* lines 187-191
scatter_fig(yd) ==
    [kind |-> "scatter",
     x |-> [i \in 1..Len(yd) |-> yd[i].NumeroPoblacionObjetivo],
     y |-> [i \in 1..Len(yd) |-> yd[i].tasa_100k],
     hover_name |-> [i \in 1..Len(yd) |-> yd[i].NombreMunicipio],
     size |-> [i \in 1..Len(yd) |-> yd[i].NumeroCasos]]

\* line 196
total_casos(fd) == SeqSum([i \in 1..Len(fd) |-> fd[i].NumeroCasos])

\* line 197
total_pob(fd) == SeqSum([i \in 1..Len(fd) |-> fd[i].NumeroPoblacionObjetivo])

\* line 198
tasa_prom(fd) ==
    IF total_pob(fd) > 0 THEN Fr(total_casos(fd) * 100000, total_pob(fd)) ELSE NaN

\* line 199: the number of rows with cases
municipios_afectados(fd) == Len(SelectSeq(fd, LAMBDA r : r.NumeroCasos > 0))

\* line 200: nunique() does not count the missing code
total_mun(fd) == Cardinality({fd[i].CodigoMunicipio : i \in 1..Len(fd)} \ {Missing})

\* lines 202-207: the four paragraphs, by what they show; the rate paragraph
\* shows N/A when tasa_prom is NaN
stats_html(fd, selected_year, selected_region) ==
    [kind |-> "stats",
     total_casos |-> total_casos(fd),
     tasa_prom |-> tasa_prom(fd),
     municipios_afectados |-> municipios_afectados(fd),
     total_mun |-> total_mun(fd),
     anio |-> selected_year,
     region |-> IF selected_region = "all" THEN "Todas" ELSE selected_region]

\* line 213
empty_fig(e) == [kind |-> "empty", title |-> <<"Error interno: ", e>>]

\* a fault of the handler: the map that was already built is returned as it is
ErrorResult_keeps_map(e) ==
    [status |-> "returned",
     map_fig |-> map_fig(Globals), time_fig |-> empty_fig(e), dist_fig |-> empty_fig(e),
     box_fig |-> empty_fig(e), scatter_fig |-> empty_fig(e),
     stats |-> [kind |-> "error", text |-> <<"Error interno: ", e>>]]

\* line 214
ErrorResult(e) ==
    [status |-> "returned",
     map_fig |-> empty_fig(e), time_fig |-> empty_fig(e), dist_fig |-> empty_fig(e),
     box_fig |-> empty_fig(e), scatter_fig |-> empty_fig(e),
     stats |-> [kind |-> "error", text |-> <<"Error interno: ", e>>]]

\* line 209
OkResult(G, y, selected_year, selected_region) ==
    LET fd == filtered_df(G, selected_region)
        yd == year_df(G, selected_region, y)
    IN  [status |-> "returned",
         map_fig |-> map_fig(G), time_fig |-> time_fig(fd), dist_fig |-> dist_fig(yd),
         box_fig |-> box_fig(fd), scatter_fig |-> scatter_fig(yd),
         stats |-> stats_html(fd, selected_year, selected_region)]

\* lines 121-214: the try block and its handler
Dashboard(G, selected_year, selected_region) ==
    LET y == py_int(selected_year)
    IN  IF y.raised THEN ErrorResult(y.e)
        ELSE OkResult(G, y.v, selected_year, selected_region)

Call(selected_year, selected_region, result) ==
    [status |-> result.status, year |-> selected_year, region |-> selected_region,
     map_fig |-> result.map_fig, time_fig |-> result.time_fig,
     dist_fig |-> result.dist_fig, box_fig |-> result.box_fig,
     scatter_fig |-> result.scatter_fig, stats |-> result.stats]

\* a fault of the callback: line 123 rebinds the global df to the filtered set
update_dashboard_rebinds_df(selected_year, selected_region) ==
    /\ pc = "serving"
    /\ out' = Call(selected_year, selected_region,
                   Dashboard(Globals, selected_year, selected_region))
    /\ df' = filtered_df(Globals, selected_region)
    /\ UNCHANGED <<pc, csv, geo, years, muni_agg, global_vmax, geojson_data,
                   available_ids>>

\* a fault of the callback: lines 127-129 without .copy() filter muni_agg itself
update_dashboard_filters_agg(selected_year, selected_region) ==
    /\ pc = "serving"
    /\ out' = Call(selected_year, selected_region,
                   Dashboard(Globals, selected_year, selected_region))
    /\ muni_agg' = map_data(Globals)
    /\ UNCHANGED <<pc, csv, geo, df, years, global_vmax, geojson_data,
                   available_ids>>

update_dashboard(selected_year, selected_region) ==
    /\ pc = "serving"
    /\ out' = Call(selected_year, selected_region,
                   Dashboard(Globals, selected_year, selected_region))
    /\ UNCHANGED <<pc, csv, geo, data>>

----------------------------------------------------------------------------
(* Specifications                                                          *)

MaxRows == 2

MaxCodeLen == 6

SeqsUpTo(S, n) == UNION {[1..l -> S] : l \in 0..n}

\* the files of at most n rows that hold one row per municipality and year
Tables(S, n) ==
    {t \in SeqsUpTo(S, n) :
        \A i \in 1..Len(t), j \in 1..Len(t) :
            (t[i].Anio = t[j].Anio /\ t[i].CodigoMunicipio = t[j].CodigoMunicipio)
                => i = j}

NameOf(c) == IF c = T5001 THEN "Medellin" ELSE "Abejorral"

RegionOf(c) == IF c = T5001 THEN "Norte" ELSE "Sur"

\* Spec: every file of at most MaxRows rows over two municipalities (each in
\* its own region) and two years, with or without cases and population
ServeRows ==
    {Row(IntCell(y), c, NameOf(c), RegionOf(c), IntCell(n), IntCell(p)) :
        y \in {2020, 2021}, c \in {T5001, T5002}, n \in {0, 1}, p \in {0, 100000}}

ServeGeo ==
    {NoFile,
     File(<<Feature(T5001, Missing, Missing)>>),
     File(<<Feature(T05001, Missing, Missing)>>),
     File(<<Feature(Missing, T5002, Missing)>>)}

SelectedYears == {IntArg(2020), IntArg(2021), NoneVal}

SelectedRegions == {"all", "Norte", "Otra"}

Boot(rows, file) ==
    /\ pc = "boot"
    /\ csv = rows
    /\ geo = file
    /\ df = <<>>
    /\ years = <<>>
    /\ muni_agg = <<>>
    /\ global_vmax = NoneVal
    /\ geojson_data = <<>>
    /\ available_ids = {}
    /\ out = NoOut
    /\ prev = NoOut

Init == \E rows \in Tables(ServeRows, MaxRows), file \in ServeGeo : Boot(rows, file)

Start == Load /\ UNCHANGED prev

Refresh ==
    \E y \in SelectedYears, r \in SelectedRegions :
        update_dashboard(y, r) /\ UNCHANGED prev

Next == Start \/ Refresh

Spec == Init /\ [][Next]_vars

\* SpecLoad: the load stage alone, over one-row files whose cells are dirty
RawCodes == SeqsUpTo({"0", "5", "a"}, MaxCodeLen) \cup {Missing}

RawCasos == {NaN, TextCell, IntCell(0), IntCell(2), IntCell(-1), Fr(5, 2)}

RawPoblacion ==
    {NaN, TextCell, IntCell(0), IntCell(-1), Fr(1, 2), IntCell(3), IntCell(100000)}

LoadRows ==
    {Row(IntCell(2020), c, "Medellin", "Norte", IntCell(2), IntCell(100000)) :
        c \in RawCodes}
    \cup
    {Row(y, T5001, "Medellin", r, n, p) :
        y \in {IntCell(2020), NaN}, r \in {"Norte", NaNRegion},
        n \in RawCasos, p \in RawPoblacion}

LoadFeatures ==
    {Feature(i, c1, c2) :
        i \in {Missing, <<>>, T5001, T05001},
        c1 \in {Missing, T5002},
        c2 \in {Missing, <<"5", "0">>}}

LoadGeo ==
    {NoFile, File(<<>>)} \cup {File(<<f>>) : f \in LoadFeatures}
    \cup {File(<<Feature(T5001, Missing, Missing), Feature(Missing, T5002, Missing)>>)}

InitLoad ==
    \E rows \in {<<>>} \cup {<<r>> : r \in LoadRows}, file \in LoadGeo :
        Boot(rows, file)

NextLoad == Load /\ UNCHANGED prev

SpecLoad == InitLoad /\ [][NextLoad]_vars

\* SpecTwice: as Spec, over fewer files, remembering the output before the last
TwiceRows ==
    {Row(IntCell(y), c, NameOf(c), RegionOf(c), IntCell(n), IntCell(100000)) :
        y \in {2020, 2021}, c \in {T5001, T5002}, n \in {0, 1}}

TwiceGeo == {NoFile, File(<<Feature(T05001, Missing, Missing)>>)}

TwiceYears == {IntArg(2020), NoneVal, TextArg}

InitTwice ==
    \E rows \in Tables(TwiceRows, MaxRows), file \in TwiceGeo : Boot(rows, file)

RefreshAgain ==
    \E y \in TwiceYears, r \in SelectedRegions :
        update_dashboard(y, r) /\ prev' = out

NextTwice == Start \/ RefreshAgain

SpecTwice == InitTwice /\ [][NextTwice]_vars

----------------------------------------------------------------------------
(* Properties of the load stage (SpecLoad)                                 *)

Records == {df[i] : i \in 1..Len(df)}

RateIs(t, casos, pob) == ~IsNaN(t) /\ t.n * pob = casos * 100000 * t.d

\* C1, as stated: after loading, the rate of every record is undefined if and
\* only if its population is 0, and otherwise it is cases / population * 100000.
C1_RateUndefinedIffZero ==
    pc = "serving" =>
        \A r \in Records :
            /\ IsNaN(r.tasa_100k) <=> r.NumeroPoblacionObjetivo = 0
            /\ r.NumeroPoblacionObjetivo # 0 =>
                   RateIs(r.tasa_100k, r.NumeroCasos, r.NumeroPoblacionObjetivo)

\* C1, amended: after loading, the rate of every record is undefined if and only
\* if its population is not above 0 (zero or negative), and for every other
\* record it is exactly cases / population * 100000.
C1_RateUndefinedIffNotPositive ==
    pc = "serving" =>
        \A r \in Records :
            /\ IsNaN(r.tasa_100k) <=> r.NumeroPoblacionObjetivo <= 0
            /\ r.NumeroPoblacionObjetivo > 0 =>
                   RateIs(r.tasa_100k, r.NumeroCasos, r.NumeroPoblacionObjetivo)

\* a loaded record with 2 cases in a population of 100000 has the rate 2
C1_Witness ==
    /\ pc = "serving"
    /\ \E r \in Records :
           /\ r.NumeroCasos = 2
           /\ r.NumeroPoblacionObjetivo = 100000
           /\ r.tasa_100k = Fr(2, 1)

AllDigits(t) == \A i \in 1..Len(t) : t[i] \in Digits

\* the first maximal run of digits of a text is its characters b..e
FirstRun(t, b, e) ==
    /\ b <= e
    /\ \A i \in 1..(b - 1) : t[i] \notin Digits
    /\ \A i \in b..e : t[i] \in Digits
    /\ (e = Len(t) \/ t[e + 1] \notin Digits)

HasDigit(t) == \E i \in 1..Len(t) : t[i] \in Digits

\* C2, as stated: every loaded municipality code is a string of exactly 5
\* digits, or undefined when the raw value has no digit; none has another length.
C2_CodeHasFiveDigits ==
    pc = "serving" =>
        /\ \A i \in 1..Len(df) :
               LET raw  == astype_str(csv[i].CodigoMunicipio)
                   code == df[i].CodigoMunicipio
               IN  IF HasDigit(raw)
                   THEN ~IsMissing(code) /\ AllDigits(code) /\ Len(code) = 5
                   ELSE IsMissing(code)
        /\ \A j \in 1..Len(muni_agg) :
               AllDigits(muni_agg[j].CodigoMunicipio)
               /\ Len(muni_agg[j].CodigoMunicipio) = 5

\* C2, amended: every loaded municipality code is undefined when the raw value
\* has no digit, and otherwise is the first run of digits of the raw value,
\* left-padded with zeros to 5 characters when the run is shorter and kept
\* whole when it is longer: a digit string of at least 5 characters, of
\* exactly 5 when the run has at most 5 digits.  The aggregate carries the
\* defined codes unchanged.
C2_CodeIsPaddedFirstRun ==
    pc = "serving" =>
        /\ \A i \in 1..Len(df) :
               LET raw  == astype_str(csv[i].CodigoMunicipio)
                   code == df[i].CodigoMunicipio
               IN  IF HasDigit(raw)
                   THEN /\ ~IsMissing(code)
                        /\ AllDigits(code)
                        /\ \E b \in 1..Len(raw), e \in 1..Len(raw) :
                               /\ FirstRun(raw, b, e)
                               /\ Len(code) = IF e - b + 1 < 5 THEN 5 ELSE e - b + 1
                               /\ \A k \in 1..(Len(code) - (e - b + 1)) : code[k] = "0"
                               /\ SubSeq(code, Len(code) - (e - b), Len(code))
                                      = SubSeq(raw, b, e)
                   ELSE IsMissing(code)
        /\ {muni_agg[j].CodigoMunicipio : j \in 1..Len(muni_agg)}
               = {r.CodigoMunicipio : r \in Records} \ {Missing}

\* the raw value "5a0" was loaded as "00005"
C2_Witness ==
    /\ pc = "serving"
    /\ csv[1].CodigoMunicipio = <<"5", "a", "0">>
    /\ df[1].CodigoMunicipio = <<"0", "0", "0", "0", "5">>
    /\ muni_agg[1].CodigoMunicipio = <<"0", "0", "0", "0", "5">>

----------------------------------------------------------------------------
(* Properties of the callback (Spec)                                       *)

Returned(o) == o.status = "returned"

Figures(o) == <<o.map_fig, o.time_fig, o.dist_fig, o.box_fig, o.scatter_fig>>

\* the output of the handler: placeholders and the error text
IsError(o) == Returned(o) /\ o.stats.kind = "error"

\* the output of line 209
IsOk(o) == Returned(o) /\ o.stats.kind = "stats"

\* C3: the cases of the time series of a refresh add up to its total-cases
\* statistic.
C3_SeriesSumsToTotal ==
    IsOk(out) => SeqSum(out.time_fig.bar) = out.stats.total_casos

\* a time series of two years, one case in each, for a total of 2
C3_Witness ==
    /\ IsOk(out)
    /\ out.time_fig.x = <<2020, 2021>>
    /\ out.time_fig.bar = <<1, 1>>
    /\ out.stats.total_casos = 2

RegionsOfDf == {r.NombreRegion : r \in Records}

\* C5: a refresh with an integer year and a region that is neither "all" nor a
\* region of the records returns normally, and what it returns is built on an
\* empty filtered set: no point in the time series, nothing in the year slice,
\* totals of 0 and an undefined average rate.
C5_UnknownRegionIsEmpty ==
    (Returned(out) /\ out.year.k = "int" /\ out.region \notin RegionsOfDf \cup {"all"})
        => /\ IsOk(out)
           /\ out.box_fig.x = <<>>
           /\ out.dist_fig.x = <<>>
           /\ out.scatter_fig.x = <<>>
           /\ out.time_fig.x = <<>>
           /\ out.time_fig.bar = <<>>
           /\ out.stats.total_casos = 0
           /\ out.stats.municipios_afectados = 0
           /\ out.stats.total_mun = 0
           /\ IsNaN(out.stats.tasa_prom)

\* a refresh for the region "Otra" returned, over two records with cases
C5_Witness ==
    /\ IsOk(out)
    /\ out.region = "Otra"
    /\ Len(df) = 2
    /\ \A r \in Records : r.NumeroCasos = 1 /\ r.NumeroPoblacionObjetivo > 0

AggCodes == [i \in 1..Len(muni_agg) |-> muni_agg[i].CodigoMunicipio]

\* C6, as stated: without a shape file the load succeeds with no shape, and
\* every refresh sends an empty location list to the map.
C6_NoFileNoLocations ==
    ~geo.exists =>
        /\ pc = "failed" => LoadFails(csv)
        /\ pc = "serving" => geojson_data = <<>> /\ available_ids = {}
        /\ IsOk(out) => out.map_fig.locations = <<>>

\* C6, amended: without a shape file the load succeeds with an empty shape set
\* and an empty shape-id set, and every refresh that returns normally sends
\* the code of every municipality of the aggregate to the map, with no shape
\* for any of them to match.
C6_NoFileAllLocations ==
    ~geo.exists =>
        /\ pc = "failed" => LoadFails(csv)
        /\ pc = "serving" => geojson_data = <<>> /\ available_ids = {}
        /\ IsOk(out) =>
               /\ out.map_fig.geojson = <<>>
               /\ out.map_fig.locations = AggCodes
               /\ out.map_fig.locations # <<>>

\* a refresh without a shape file sent two municipalities to the map
C6_Witness ==
    /\ ~geo.exists
    /\ IsOk(out)
    /\ Len(out.map_fig.locations) = 2

FilteredOfOut == filtered_df(Globals, out.region)

\* C9, as stated: the affected-municipalities figure is the number of
\* municipalities of the filtered set with cases > 0 and never exceeds the
\* number of distinct municipalities shown beside it; the totals are those of
\* the filtered set.
C9_AffectedAreMunicipalities ==
    IsOk(out) =>
        /\ out.stats.municipios_afectados =
               Cardinality({FilteredOfOut[i].CodigoMunicipio :
                                i \in {j \in 1..Len(FilteredOfOut) :
                                           FilteredOfOut[j].NumeroCasos > 0}})
        /\ out.stats.municipios_afectados <= out.stats.total_mun
        /\ out.stats.total_mun =
               Cardinality({FilteredOfOut[i].CodigoMunicipio :
                                i \in 1..Len(FilteredOfOut)})
        /\ out.stats.total_casos =
               SeqSum([i \in 1..Len(FilteredOfOut) |-> FilteredOfOut[i].NumeroCasos])

ShapeIds == {geojson_data[i].id : i \in {j \in 1..Len(geojson_data) :
                                            Truthy(geojson_data[j].id)}}

\* C10, as stated: every loaded shape that has an identifier carries it in the
\* 5-character zero-padded form, the form of the shape-id set, so every
\* location a refresh sends to the map is the identifier of a loaded shape.
C10_LocationsMatchShapes ==
    pc = "serving" =>
        /\ \A i \in ShapeIds : Len(i) = 5
        /\ ShapeIds = available_ids
        /\ IsOk(out) =>
               \A k \in 1..Len(out.map_fig.locations) :
                   out.map_fig.locations[k] \in ShapeIds

----------------------------------------------------------------------------
(* Properties of successive invocations (SpecTwice)                        *)

IsPlaceholder(f) == f.kind = "empty"

\* C4: every invocation returns; one whose year is missing or not an integer
\* returns five placeholders and the error text; and no output mixes a
\* placeholder or the error text with a computed figure or summary.
C4_FailureIsUniform ==
    out # NoOut =>
        /\ Returned(out)
        /\ out.year.k # "int" =>
               /\ \A i \in 1..5 : IsPlaceholder(Figures(out)[i])
               /\ out.stats.kind = "error"
               /\ out.stats.text[1] = "Error interno: "
        /\ ((\E i \in 1..5 : IsPlaceholder(Figures(out)[i])) \/ out.stats.kind = "error")
               => /\ \A i \in 1..5 : IsPlaceholder(Figures(out)[i])
                  /\ out.stats.kind = "error"
        /\ out.stats.kind = "stats" =>
               /\ out.map_fig.kind = "choropleth"
               /\ out.time_fig.kind = "time"
               /\ out.dist_fig.kind = "histogram"
               /\ out.box_fig.kind = "box"
               /\ out.scatter_fig.kind = "scatter"

\* an invocation without a year returned the placeholders, right after one
\* with a text for a year did
C4_Witness ==
    /\ IsError(prev)
    /\ prev.year = TextArg
    /\ IsError(out)
    /\ out.year = NoneVal
    /\ out.stats.text = <<"Error interno: ", "TypeError">>

SameInputs(a, b) == a.year = b.year /\ a.region = b.region

\* C7: two successive invocations with the same year and region return the
\* same output, and every output is the one a process that has just loaded
\* the same two files returns for that year and region.
C7_SameInputsSameOutput ==
    /\ (Returned(prev) /\ Returned(out) /\ SameInputs(prev, out)) => prev = out
    /\ Returned(out) =>
           out = Call(out.year, out.region,
                      Dashboard(Loaded(csv, geo), out.year, out.region))

\* the same year and region twice in a row, over two records of two years
C7_Witness ==
    /\ IsOk(prev)
    /\ IsOk(out)
    /\ SameInputs(prev, out)
    /\ out.region = "Norte"
    /\ Len(out.box_fig.x) = 2
    /\ Len(out.dist_fig.x) = 1

\* C8: once loaded, no invocation changes the records, the years, the
\* aggregate, the colour-scale bound, the shapes or the shape-id set, whether
\* it returns normally or through the handler; and the invocation after one
\* that failed returns what a freshly loaded process returns.
C8_LoadedDataIsFrozen ==
    [][pc = "serving" =>
          /\ UNCHANGED data
          /\ (IsError(out) /\ Returned(out')) =>
                 out' = Call(out'.year, out'.region,
                             Dashboard(Loaded(csv, geo), out'.year, out'.region))]_vars

\* a normal return right after a failed invocation, over a file whose map
\* restriction drops a municipality
C8_Witness ==
    /\ IsError(prev)
    /\ IsOk(out)
    /\ Len(muni_agg) = 2
    /\ Len(out.map_fig.locations) = 1

====
